---- MODULE Spec2Model ----
(***************************************************************************)
(* Publication queue and worker of pablic_publisher (package src/app).     *)
(* The durable store is the shared state; every worker and every admin     *)
(* request works on its own ORM session: it loads a row, changes attributes*)
(* and its commit writes back exactly the attributes whose value differs   *)
(* from the loaded one (UPDATE ... WHERE id = ?).                          *)
(***************************************************************************)
EXTENDS Integers, Sequences, FiniteSets, TLC

\* ---------------------------------------------------------------- bounds
NumWorkers == 2
AdminSlots == 2
MaxAdminOps == 2
MaxRequests == 1
MaxScheduleOps == 3
MaxSlots == 3
MaxApply == 2
MaxPieces == 3
MaxPubs == 1
MaxMsgs == 2
MaxTime == 1800
BatchRows == 2

\* ------------------------------------------------------ program constants
MAX_ATTEMPTS == 5
DEFAULT_RETRY_MINUTES == 30
PROCESSING_TTL_SECONDS == 900
SLOT_SEARCH_DAYS == 365
DAY_SECONDS == 86400
COMMIT_MAX_ATTEMPTS == 5
COMMIT_DELAY_MS == 200
MAX_BODY_LENGTH == 4096
MAX_MEDIA_ITEMS == 10
MOSCOW_OFFSET_SECONDS == 10800
BATCH_LIMIT == 20

\* ------------------------------------------------------------ vocabulary
NULL == -1
NoneResult == [none |-> TRUE]
Workers == 1..NumWorkers
Admins == 1..AdminSlots
TickStep == PROCESSING_TTL_SECONDS
PlannedChoices == {0}
RetryAfterChoices == {120, 3600}
Outcomes == {"ok", "retry_after", "rejected", "network"}
Claimable == {"scheduled", "retry"}
NonTerminal == {"scheduled", "retry", "processing"}
Terminal == {"sent", "failed", "canceled"}

\* sends[p] counts the send_publication calls made for row p since attempts
\* was last reset; the failures a row starts with count as calls.
VARIABLES now, pubs, post, wpc, due, cur, snap, res, adm, adminOps,
          remoteSeq, delivered, midWrites, rivals, audit, batch, call, sends

vars == <<now, pubs, post, wpc, due, cur, snap, res, adm, adminOps,
          remoteSeq, delivered, midWrites, rivals, audit, batch, call, sends>>

PubIds == 1..Len(pubs)

\* A row of table publications as post_schedule inserts it.
NewPublication(planned) ==
    [status |-> "scheduled", attempts |-> 0, planned_at |-> planned,
     ready_at |-> planned, locked_at |-> NULL, locked_by |-> NULL,
     message_id |-> NULL, sent_at |-> NULL, last_error |-> "null", post_id |-> 1]

\* A row that went through k retryable failures and whose backoff has elapsed.
RetriedPublication(k) ==
    [NewPublication(0) EXCEPT !.status = "retry", !.attempts = k,
                              !.locked_by = 1, !.last_error = "send_error"]

\* Shapes of the stored post: media count, keyboard, options.pin and whether
\* the stored JSON fields parse ("ok"), do not parse ("bad_json") or parse to
\* a buttons list whose items are not objects ("bad_items").
PostShapes ==
    { [body_len |-> 0, links |-> <<>>, rule_hit |-> "none",
       media_count |-> 0, keyboard |-> FALSE, pin |-> FALSE, fields |-> "ok"],
      [body_len |-> 0, links |-> <<>>, rule_hit |-> "none",
       media_count |-> 0, keyboard |-> FALSE, pin |-> TRUE,  fields |-> "ok"],
      [body_len |-> 0, links |-> <<>>, rule_hit |-> "none",
       media_count |-> 0, keyboard |-> FALSE, pin |-> FALSE, fields |-> "bad_items"] }

\* The checks of validate_post with the body length compared by >=.
validate_post_ge(shape) ==
    IF shape.body_len >= MAX_BODY_LENGTH
    THEN [ok |-> FALSE, reason |-> "body_too_long"]
    ELSE IF shape.fields = "bad_json"
    THEN [ok |-> FALSE, reason |-> "json_error"]
    ELSE IF shape.fields = "bad_type"
    THEN [ok |-> FALSE, reason |-> "json_type"]
    ELSE IF shape.media_count > MAX_MEDIA_ITEMS
    THEN [ok |-> FALSE, reason |-> "too_many_media"]
    ELSE IF \E i \in 1..Len(shape.links) : shape.links[i] \notin {"http", "https"}
    THEN [ok |-> FALSE, reason |-> "bad_scheme"]
    ELSE IF shape.rule_hit # "none"
    THEN [ok |-> FALSE, reason |-> shape.rule_hit]
    ELSE [ok |-> TRUE, reason |-> "null"]

\* validate_post: (ok, reason). body_len is len(body_html); the stored fields
\* are rejected when they do not parse ("bad_json") or parse to another JSON
\* type than list/list/dict ("bad_type"), items of the lists are not looked
\* at; links are the schemes of the body's <a href> in order; rule_hit is the
\* kind of the first enabled blacklist rule that matches the body.
validate_post(shape) ==
    IF shape.body_len > MAX_BODY_LENGTH
    THEN [ok |-> FALSE, reason |-> "body_too_long"]
    ELSE IF shape.fields = "bad_json"
    THEN [ok |-> FALSE, reason |-> "json_error"]
    ELSE IF shape.fields = "bad_type"
    THEN [ok |-> FALSE, reason |-> "json_type"]
    ELSE IF shape.media_count > MAX_MEDIA_ITEMS
    THEN [ok |-> FALSE, reason |-> "too_many_media"]
    ELSE IF \E i \in 1..Len(shape.links) : shape.links[i] \notin {"http", "https"}
    THEN [ok |-> FALSE, reason |-> "bad_scheme"]
    ELSE IF shape.rule_hit # "none"
    THEN [ok |-> FALSE, reason |-> shape.rule_hit]
    ELSE [ok |-> TRUE, reason |-> "null"]

\* post.blacklist_check_status = "ok" if ok else "blocked";
\* post.blacklist_reason = reason.
Checked(v) ==
    [blacklist_check_status |-> IF v.ok THEN "ok" ELSE "blocked",
     blacklist_reason |-> v.reason]

\* What the post form and a CSV row can store: every shape above, one whose
\* JSON does not parse and one whose JSON is of another type. csv_import always stores options = "{}".
FormShapes ==
    PostShapes \cup
        { [body_len |-> 0, links |-> <<>>, rule_hit |-> "none",
           media_count |-> 0, keyboard |-> FALSE, pin |-> FALSE, fields |-> f] :
             f \in {"bad_json", "bad_type"} }

CsvShapes == { shape \in FormShapes : ~shape.pin }

\* Table posts before the post is created.
NoPost ==
    [media_count |-> 0, keyboard |-> FALSE, pin |-> FALSE, fields |-> "ok",
     body_len |-> 0, links |-> <<>>, rule_hit |-> "none",
     status |-> "absent", blacklist_check_status |-> "ok", blacklist_reason |-> "null"]

\* SendResult dataclass; retryable defaults to True.
SendResult(ok, mid, err, ra, retryable) ==
    [ok |-> ok, message_id |-> mid, error |-> err,
     retry_after_seconds |-> ra, retryable |-> retryable]

NoSnap == [id |-> 0]

\* The worker's batch in progress: the list the due query returned (sel), the
\* rows of it the worker claimed (done) and the rows it skipped (skipped).
NoBatch == [sel |-> <<>>, done |-> {}, skipped |-> {}]

\* The batch record once the loop has reached pc.
BatchAt(pc, b) == IF pc = "idle" THEN NoBatch ELSE b
IdleAdmin == [kind |-> "idle"]

\* No helper function is being evaluated on its own.
NoCall == [fn |-> "none"]

\* Session flush: the UPDATE carries the attributes whose new value differs
\* from the loaded one; attributes assigned a fresh now() always differ.
OrmFlush(stored, loaded, target, fresh) ==
    [c \in DOMAIN stored |->
        IF c \in fresh \/ target[c] # loaded[c] THEN target[c] ELSE stored[c]]

Max(a, b) == IF a >= b THEN a ELSE b

NextPc(d) == IF d = <<>> THEN "idle" ELSE "batch"

Init ==
    /\ now = 0
    /\ \E shape \in PostShapes :
         \/ /\ pubs = <<>>
            /\ post = shape @@ [status |-> "draft"] @@ Checked(validate_post(shape))
         \/ /\ \E k \in {0, MAX_ATTEMPTS - 1} :
                 pubs = << IF k = 0 THEN NewPublication(0) ELSE RetriedPublication(k) >>
            /\ post = shape @@ [status |-> "scheduled"] @@ Checked(validate_post(shape))
    /\ wpc = [w \in Workers |-> "idle"]
    /\ due = [w \in Workers |-> <<>>]
    /\ cur = [w \in Workers |-> 0]
    /\ snap = [w \in Workers |-> NoSnap]
    /\ res = [w \in Workers |-> NoneResult]
    /\ adm = [a \in Admins |-> IdleAdmin]
    /\ adminOps = 0
    /\ remoteSeq = 0
    /\ delivered = [p \in 1..MaxPubs |-> 0]
    /\ sends = [p \in 1..MaxPubs |-> IF p \in PubIds THEN pubs[p].attempts ELSE 0]
    /\ midWrites = [p \in 1..MaxPubs |-> 0]
    /\ rivals = [p \in 1..MaxPubs |-> {}]
    /\ audit = <<>>
    /\ batch = [w \in Workers |-> NoBatch]
    /\ call = NoCall

\* Two publications of one valid post, both due, planned for the same minute
\* or one minute apart in either order of their ids, as two post_schedule
\* requests leave them.
BatchPlanned == {0, 60}

InitBatch ==
    /\ now = 60
    /\ \E planned \in [1..BatchRows -> BatchPlanned] :
          pubs = [p \in 1..BatchRows |-> NewPublication(planned[p])]
    /\ post = [media_count |-> 0, keyboard |-> FALSE, pin |-> FALSE, fields |-> "ok",
               body_len |-> 0, links |-> <<>>, rule_hit |-> "none",
               status |-> "scheduled",
               blacklist_check_status |-> "ok", blacklist_reason |-> "null"]
    /\ wpc = [w \in Workers |-> "idle"]
    /\ due = [w \in Workers |-> <<>>]
    /\ cur = [w \in Workers |-> 0]
    /\ snap = [w \in Workers |-> NoSnap]
    /\ res = [w \in Workers |-> NoneResult]
    /\ adm = [a \in Admins |-> IdleAdmin]
    /\ adminOps = 0
    /\ remoteSeq = 0
    /\ delivered = [p \in 1..BatchRows |-> 0]
    /\ sends = [p \in 1..BatchRows |-> IF p \in PubIds THEN pubs[p].attempts ELSE 0]
    /\ midWrites = [p \in 1..BatchRows |-> 0]
    /\ rivals = [p \in 1..BatchRows |-> {}]
    /\ audit = <<>>
    /\ batch = [w \in Workers |-> NoBatch]
    /\ call = NoCall

\* ------------------------------------------------------- messaging client
\* The answers the remote service gives with HTTP status 400, 401, 403, 404.
Rejections == {"bad_request", "unauthorized", "forbidden", "not_found"}

\* _execute with TelegramNotFound left to the TelegramAPIError handler.
TelegramExecuteNotFoundRetryable(o, mid, ra) ==
    CASE o = "ok"          -> SendResult(TRUE, mid, "null", NULL, TRUE)
      [] o = "retry_after" -> SendResult(FALSE, NULL, "retry_after", ra, TRUE)
      [] o = "rejected" \/ o \in Rejections \ {"not_found"}
                           -> SendResult(FALSE, NULL, "rejected", NULL, FALSE)
      [] o \in {"server_error", "not_found"}
                           -> SendResult(FALSE, NULL, "api_error", NULL, TRUE)
      [] OTHER             -> SendResult(FALSE, NULL, "network_error", NULL, TRUE)

\* TelegramClient._execute for a content method: the remote answer o decides
\* the SendResult; mid is the id the remote service gives the new message.
\* "rejected" stands for any one of Rejections.
TelegramExecute(o, mid, ra) ==
    CASE o = "ok"          -> SendResult(TRUE, mid, "null", NULL, TRUE)
      [] o = "retry_after" -> SendResult(FALSE, NULL, "retry_after", ra, TRUE)
      [] o = "rejected" \/ o \in Rejections
                           -> SendResult(FALSE, NULL, "rejected", NULL, FALSE)
      [] o = "server_error" -> SendResult(FALSE, NULL, "api_error", NULL, TRUE)
      [] OTHER             -> SendResult(FALSE, NULL, "network_error", NULL, TRUE)

\* The call ends with an exception _execute has no handler for.
ExecuteRaises(o) == o = "unexpected"

\* TelegramClient.pin_message runs pinChatMessage and returns nothing.
pin_message(o) == NoneResult

\* _pin_if_requested reads pin_result.ok; TRUE when that read raises.
PinRaises(shape, mid, o) ==
    /\ shape.pin
    /\ mid # NULL
    /\ pin_message(o) = NoneResult

\* _send_media_group: the group, then the follow-up message with the keyboard;
\* raised = an exception left the function.
send_media_group(shape, o1, o2, seq, ra) ==
    LET group_result == TelegramExecute(o1, seq + 1, ra)
        follow_result == TelegramExecute(o2, seq + 2, ra)
    IN  IF ExecuteRaises(o1) THEN [raised |-> TRUE, result |-> NoneResult, seq |-> seq]
        ELSE IF ~group_result.ok THEN [raised |-> FALSE, result |-> group_result, seq |-> seq]
        ELSE IF ~shape.keyboard
        THEN [raised |-> FALSE, result |-> group_result, seq |-> seq + 1]
        ELSE IF ExecuteRaises(o2)
        THEN [raised |-> TRUE, result |-> NoneResult, seq |-> seq + 1]
        ELSE IF ~follow_result.ok
        THEN [raised |-> FALSE, result |-> follow_result, seq |-> seq + 1]
        ELSE [raised |-> FALSE,
              result |-> SendResult(TRUE, follow_result.message_id, "null", NULL, TRUE),
              seq |-> seq + 2]

\* The JsonFieldError answer with SendResult's default retryable.
JsonFieldResultRetryable == SendResult(FALSE, NULL, "json_field_error", NULL, TRUE)

\* except JsonFieldError: SendResult(ok=False, error=str(exc), retryable=False)
JsonFieldResult == SendResult(FALSE, NULL, "json_field_error", NULL, FALSE)

\* except Exception: SendResult(ok=False, error="unexpected_error: ...")
UnexpectedResult == SendResult(FALSE, NULL, "unexpected_error", NULL, TRUE)

\* The content call send_publication makes for the media count.
ContentSend(shape, o1, o2, seq, ra) ==
    IF shape.media_count >= 2 THEN send_media_group(shape, o1, o2, seq, ra)
    ELSE IF ExecuteRaises(o1) THEN [raised |-> TRUE, result |-> NoneResult, seq |-> seq]
    ELSE LET r == TelegramExecute(o1, seq + 1, ra)
         IN  [raised |-> FALSE, result |-> r, seq |-> IF r.ok THEN seq + 1 ELSE seq]

\* send_publication: raised = an exception left the function; content = the
\* number of primary content sends the remote service accepted.
send_publication(shape, o1, o2, o3, seq, ra) ==
    IF shape.fields \in {"bad_json", "bad_type"}
    THEN [raised |-> FALSE, content |-> 0, seq |-> seq, result |-> JsonFieldResult]
    ELSE IF shape.fields = "bad_items"
    THEN [raised |-> TRUE, content |-> 0, seq |-> seq, result |-> NoneResult]
    ELSE LET c == ContentSend(shape, o1, o2, seq, ra)
             accepted == IF o1 = "ok" THEN 1 ELSE 0
         IN  IF c.raised
             THEN [raised |-> FALSE, content |-> accepted, seq |-> c.seq,
                   result |-> UnexpectedResult]
             ELSE IF ~c.result.ok
             THEN [raised |-> FALSE, content |-> accepted, seq |-> c.seq, result |-> c.result]
             ELSE IF PinRaises(shape, c.result.message_id, o3)
             THEN [raised |-> FALSE, content |-> accepted, seq |-> c.seq,
                   result |-> UnexpectedResult]
             ELSE [raised |-> FALSE, content |-> accepted, seq |-> c.seq, result |-> c.result]

\* ------------------------------------------------------------------ worker
Range(s) == {s[i] : i \in 1..Len(s)}

\* ORDER BY ready_at, planned_at, id DESC
DueBeforeIdDesc(a, b) ==
    \/ pubs[a].ready_at < pubs[b].ready_at
    \/ /\ pubs[a].ready_at = pubs[b].ready_at
       /\ \/ pubs[a].planned_at < pubs[b].planned_at
          \/ pubs[a].planned_at = pubs[b].planned_at /\ a > b

\* ORDER BY ready_at, planned_at, id
DueBefore(a, b) ==
    \/ pubs[a].ready_at < pubs[b].ready_at
    \/ /\ pubs[a].ready_at = pubs[b].ready_at
       /\ \/ pubs[a].planned_at < pubs[b].planned_at
          \/ pubs[a].planned_at = pubs[b].planned_at /\ a < b

RECURSIVE SortDue(_)
SortDue(S) ==
    IF S = {} THEN <<>>
    ELSE LET m == CHOOSE x \in S : \A y \in S \ {x} : DueBefore(x, y)
         IN  <<m>> \o SortDue(S \ {m})

DueSelection ==
    LET eligible == {p \in PubIds : /\ pubs[p].status \in Claimable
                                    /\ pubs[p].ready_at <= now
                                    /\ pubs[p].attempts < MAX_ATTEMPTS}
        sorted == SortDue(eligible)
    IN  SubSeq(sorted, 1, IF Len(sorted) < BATCH_LIMIT THEN Len(sorted) ELSE BATCH_LIMIT)

\* The sweep's filter with the TTL taken for minutes.
IsStuckTtlMinutes(row) ==
    /\ row.status = "processing"
    /\ row.locked_at # NULL
    /\ row.locked_at <= now - PROCESSING_TTL_SECONDS * 60
    /\ row.attempts < MAX_ATTEMPTS

IsStuck(row) ==
    /\ row.status = "processing"
    /\ row.locked_at # NULL
    /\ row.locked_at <= now - PROCESSING_TTL_SECONDS
    /\ row.attempts < MAX_ATTEMPTS

recover_stuck_publications(w) ==
    /\ wpc[w] = "idle"
    /\ pubs' = [p \in PubIds |->
                  IF IsStuck(pubs[p])
                  THEN [pubs[p] EXCEPT !.status = "retry", !.ready_at = now,
                                       !.locked_at = NULL, !.locked_by = w,
                                       !.last_error = "processing_ttl_expired"]
                  ELSE pubs[p]]
    /\ wpc' = [wpc EXCEPT ![w] = "select"]
    /\ UNCHANGED <<now, post, due, cur, snap, res, adm, adminOps,
                   remoteSeq, delivered, midWrites, rivals, audit, batch, call, sends>>

SelectDue(w) ==
    /\ wpc[w] = "select"
    /\ due' = [due EXCEPT ![w] = DueSelection]
    /\ wpc' = [wpc EXCEPT ![w] = NextPc(DueSelection)]
    /\ batch' = [batch EXCEPT ![w] = BatchAt(NextPc(DueSelection),
                                            [NoBatch EXCEPT !.sel = DueSelection])]
    /\ UNCHANGED <<now, pubs, post, cur, snap, res, adm, adminOps,
                   remoteSeq, delivered, midWrites, rivals, audit, call, sends>>

\* Conditional claim UPDATE and its commit; locked = rows affected.
ClaimUpdate(row, w) ==
    IF row.status \in Claimable
    THEN [row EXCEPT !.status = "processing", !.locked_at = now, !.locked_by = w]
    ELSE row

Claim(w) ==
    /\ wpc[w] = "batch"
    /\ due[w] # <<>>
    /\ LET p == Head(due[w])
           locked == ClaimUpdate(pubs[p], w) # pubs[p]
       IN  /\ pubs' = [pubs EXCEPT ![p] = ClaimUpdate(pubs[p], w)]
           /\ due' = [due EXCEPT ![w] = Tail(due[w])]
           /\ IF locked
              THEN /\ wpc' = [wpc EXCEPT ![w] = "claimed"]
                   /\ cur' = [cur EXCEPT ![w] = p]
                   /\ batch' = [batch EXCEPT ![w].done = @ \cup {p}]
                   /\ rivals' = [rivals EXCEPT ![p] =
                                   {v \in Workers \ {w} : p \in Range(due[v])}]
              ELSE /\ wpc' = [wpc EXCEPT ![w] = NextPc(Tail(due[w]))]
                   /\ cur' = cur
                   /\ batch' = [batch EXCEPT ![w] =
                                  BatchAt(NextPc(Tail(due[w])),
                                          [batch[w] EXCEPT !.skipped = @ \cup {p}])]
                   /\ rivals' = [rivals EXCEPT ![p] = @ \ {w}]
    /\ UNCHANGED <<now, post, snap, res, adm, adminOps, remoteSeq, delivered, midWrites, audit, call, sends>>

\* Reload of the claimed row; a row that already carries a message id goes
\* to idempotent completion, any other row is sent.
Refresh(w) ==
    /\ wpc[w] = "claimed"
    /\ pubs[cur[w]].message_id # NULL
    /\ snap' = [snap EXCEPT ![w] = [id |-> cur[w], row |-> pubs[cur[w]], post_status |-> post.status]]
    /\ wpc' = [wpc EXCEPT ![w] = "complete"]
    /\ UNCHANGED <<now, pubs, post, due, cur, res, adm, adminOps,
                   remoteSeq, delivered, midWrites, rivals, audit, batch, call, sends>>

Send(w) ==
    /\ wpc[w] = "claimed"
    /\ pubs[cur[w]].message_id = NULL
    /\ \E o1 \in Outcomes, o2 \in Outcomes, o3 \in Outcomes, ra \in RetryAfterChoices :
         LET s == send_publication(post, o1, o2, o3, remoteSeq, ra)
         IN  /\ s.seq <= MaxMsgs
             /\ remoteSeq' = s.seq
             /\ delivered' = [delivered EXCEPT ![cur[w]] = @ + s.content]
             /\ IF s.raised
                THEN /\ wpc' = [wpc EXCEPT ![w] = "dead"]
                     /\ UNCHANGED <<snap, res, batch, call>>
                ELSE /\ wpc' = [wpc EXCEPT ![w] = "result"]
                     /\ snap' = [snap EXCEPT ![w] = [id |-> cur[w], row |-> pubs[cur[w]],
                                                     post_status |-> post.status]]
                     /\ res' = [res EXCEPT ![w] = s.result]
    /\ sends' = [sends EXCEPT ![cur[w]] = @ + 1]
    /\ UNCHANGED <<now, pubs, post, due, cur, adm, adminOps, midWrites, rivals, audit, batch, call>>

\* log_action: the AuditLog row the session adds; delay is meta.delay_seconds.
AuditEntry(entity, id, action, delay) ==
    [entity |-> entity, id |-> id, action |-> action, delay |-> delay]

\* retry_delay taken from retry_after_seconds alone whenever the service gave one.
RetryDelayFromServer(r) ==
    IF r.retry_after_seconds = NULL THEN DEFAULT_RETRY_MINUTES * 60
    ELSE r.retry_after_seconds

\* retry_delay of the worker's retry branch.
RetryDelay(r) ==
    Max(DEFAULT_RETRY_MINUTES * 60,
        IF r.retry_after_seconds = NULL THEN 0 ELSE r.retry_after_seconds)

PendingCount(rows) == Cardinality({p \in DOMAIN rows : rows[p].status \in NonTerminal})

\* The success branch without the assignment of telegram_message_id.
OutcomeTargetNoMessageId(loaded, r, w) ==
    IF r.ok
    THEN [loaded EXCEPT !.status = "sent",
                        !.sent_at = now, !.last_error = "null",
                        !.locked_at = NULL, !.locked_by = w]
    ELSE IF (~r.retryable) \/ loaded.attempts + 1 >= MAX_ATTEMPTS
    THEN [loaded EXCEPT !.attempts = @ + 1, !.last_error = r.error,
                        !.locked_at = NULL, !.locked_by = w, !.status = "failed"]
    ELSE [loaded EXCEPT !.attempts = @ + 1, !.last_error = r.error,
                        !.locked_at = NULL, !.locked_by = w, !.status = "retry",
                        !.ready_at = now + RetryDelay(r)]

\* Attribute values the worker sets after send_publication returned.
OutcomeTarget(loaded, r, w) ==
    IF r.ok
    THEN [loaded EXCEPT !.status = "sent", !.message_id = r.message_id,
                        !.sent_at = now, !.last_error = "null",
                        !.locked_at = NULL, !.locked_by = w]
    ELSE IF (~r.retryable) \/ loaded.attempts + 1 >= MAX_ATTEMPTS
    THEN [loaded EXCEPT !.attempts = @ + 1, !.last_error = r.error,
                        !.locked_at = NULL, !.locked_by = w, !.status = "failed"]
    ELSE [loaded EXCEPT !.attempts = @ + 1, !.last_error = r.error,
                        !.locked_at = NULL, !.locked_by = w, !.status = "retry",
                        !.ready_at = now + RetryDelay(r)]

\* The audit entry of the worker's branch: send, fail or retry.
OutcomeAudit(p, target, r) ==
    IF target.status = "sent" THEN AuditEntry("publication", p, "send", NULL)
    ELSE IF target.status = "failed" THEN AuditEntry("publication", p, "fail", NULL)
    ELSE AuditEntry("publication", p, "retry", RetryDelay(r))

OutcomeFresh(target) ==
    IF target.status = "sent" THEN {"sent_at"}
    ELSE IF target.status = "retry" THEN {"ready_at"} ELSE {}

\* Post.status the worker's commit leaves, from the value it loaded.
OutcomePostStatus(target, rows, loadedPost) ==
    LET want == IF target.status = "sent"
                THEN (IF PendingCount(rows) = 0 THEN "sent" ELSE loadedPost)
                ELSE IF target.status = "failed" THEN "failed" ELSE loadedPost
    IN  IF want # loadedPost THEN want ELSE post.status

CommitOutcome(w) ==
    /\ wpc[w] = "result"
    /\ LET p == snap[w].id
           target == OutcomeTarget(snap[w].row, res[w], w)
           row == OrmFlush(pubs[p], snap[w].row, target, OutcomeFresh(target))
           rows == [pubs EXCEPT ![p] = row]
       IN  /\ pubs' = rows
           /\ post' = [post EXCEPT !.status = OutcomePostStatus(target, rows, snap[w].post_status)]
           /\ midWrites' = [midWrites EXCEPT ![p] = IF res[w].ok THEN @ + 1 ELSE @]
           /\ audit' = Append(audit, OutcomeAudit(p, target, res[w]))
    /\ wpc' = [wpc EXCEPT ![w] = NextPc(due[w])]
    /\ snap' = [snap EXCEPT ![w] = NoSnap]
    /\ res' = [res EXCEPT ![w] = NoneResult]
    /\ cur' = [cur EXCEPT ![w] = 0]
    /\ batch' = [batch EXCEPT ![w] = BatchAt(NextPc(due[w]), batch[w])]
    /\ UNCHANGED <<now, due, adm, adminOps, remoteSeq, delivered, rivals, call, sends>>

\* Idempotent completion of a row that already has a message id.
\* The completion counted as one more attempt.
CompletedRowCounted(loaded) ==
    [loaded EXCEPT !.status = "sent", !.sent_at = now, !.attempts = @ + 1]

\* refreshed.status = "sent"; refreshed.sent_at = now_utc_naive()
CompletedRow(loaded) == [loaded EXCEPT !.status = "sent", !.sent_at = now]

CompleteSent(w) ==
    /\ wpc[w] = "complete"
    /\ LET p == snap[w].id
           target == CompletedRow(snap[w].row)
       IN  pubs' = [pubs EXCEPT ![p] = OrmFlush(pubs[p], snap[w].row, target, {"sent_at"})]
    /\ wpc' = [wpc EXCEPT ![w] = NextPc(due[w])]
    /\ snap' = [snap EXCEPT ![w] = NoSnap]
    /\ cur' = [cur EXCEPT ![w] = 0]
    /\ batch' = [batch EXCEPT ![w] = BatchAt(NextPc(due[w]), batch[w])]
    /\ UNCHANGED <<now, post, due, res, adm, adminOps, remoteSeq, delivered, midWrites, rivals, audit, call, sends>>

\* db.session.commit() raises (store locked past its timeout): nothing is
\* caught in run_worker, the worker ends and the row stays as stored.
CommitRaises(w) ==
    /\ wpc[w] \in {"result", "complete"}
    /\ wpc' = [wpc EXCEPT ![w] = "dead"]
    /\ UNCHANGED <<now, pubs, post, due, cur, snap, res, adm, adminOps,
                   remoteSeq, delivered, midWrites, rivals, audit, batch, call, sends>>

run_worker(w) ==
    \/ recover_stuck_publications(w)
    \/ SelectDue(w)
    \/ Claim(w)
    \/ Refresh(w)
    \/ Send(w)
    \/ CommitOutcome(w)
    \/ CompleteSent(w)
    \/ CommitRaises(w)

\* ------------------------------------------------------------ admin routes
\* The request loads the publication (db.get_or_404) and its post.
AdminLoad(a, kind, p, planned) ==
    /\ adm[a] = IdleAdmin
    /\ \A b \in Admins : b < a => adm[b] # IdleAdmin
    /\ adminOps < MaxAdminOps
    /\ adm' = [adm EXCEPT ![a] = [kind |-> kind, id |-> p, row |-> pubs[p],
                                  post_status |-> post.status, planned |-> planned]]
    /\ adminOps' = adminOps + 1
    /\ UNCHANGED <<now, pubs, post, wpc, due, cur, snap, res,
                   remoteSeq, delivered, midWrites, rivals, audit, batch, call, sends>>

RescheduleTarget(loaded, planned) ==
    [loaded EXCEPT !.planned_at = planned, !.ready_at = planned, !.status = "scheduled",
                   !.attempts = 0, !.last_error = "null",
                   !.locked_at = NULL, !.locked_by = NULL]

RetryNowTarget(loaded) ==
    [loaded EXCEPT !.status = "retry", !.ready_at = now, !.attempts = 0,
                   !.last_error = "null", !.locked_at = NULL, !.locked_by = NULL]

AdminPostStatus(want, loadedPost) == IF want # loadedPost THEN want ELSE post.status

publication_reschedule(a) ==
    /\ adm[a].kind = "reschedule"
    /\ LET p == adm[a].id
       IN  pubs' = [pubs EXCEPT ![p] =
                      OrmFlush(pubs[p], adm[a].row, RescheduleTarget(adm[a].row, adm[a].planned), {})]
    /\ post' = [post EXCEPT !.status = AdminPostStatus("scheduled", adm[a].post_status)]
    /\ adm' = [adm EXCEPT ![a] = IdleAdmin]
    /\ audit' = Append(audit, AuditEntry("publication", adm[a].id, "reschedule", NULL))
    /\ sends' = [sends EXCEPT ![adm[a].id] = 0]
    /\ UNCHANGED <<now, wpc, due, cur, snap, res, adminOps,
                   remoteSeq, delivered, midWrites, rivals, batch, call>>

publication_retry_now(a) ==
    /\ adm[a].kind = "retry_now"
    /\ LET p == adm[a].id
       IN  pubs' = [pubs EXCEPT ![p] =
                      OrmFlush(pubs[p], adm[a].row, RetryNowTarget(adm[a].row), {"ready_at"})]
    /\ post' = [post EXCEPT !.status = AdminPostStatus("queued", adm[a].post_status)]
    /\ adm' = [adm EXCEPT ![a] = IdleAdmin]
    /\ audit' = Append(audit, AuditEntry("publication", adm[a].id, "retry_now", NULL))
    /\ sends' = [sends EXCEPT ![adm[a].id] = 0]
    /\ UNCHANGED <<now, wpc, due, cur, snap, res, adminOps,
                   remoteSeq, delivered, midWrites, rivals, batch, call>>

\* Bulk UPDATE of the post's non-terminal publications, one transaction.
post_cancel(limit) ==
    /\ adminOps < limit
    /\ pubs # <<>>
    /\ pubs' = [p \in PubIds |->
                  IF pubs[p].status \in NonTerminal
                  THEN [pubs[p] EXCEPT !.status = "canceled"] ELSE pubs[p]]
    /\ post' = [post EXCEPT !.status = "canceled"]
    /\ adminOps' = adminOps + 1
    /\ audit' = Append(audit, AuditEntry("post", 1, "cancel", NULL))
    /\ UNCHANGED <<now, wpc, due, cur, snap, res, adm,
                   remoteSeq, delivered, midWrites, rivals, batch, call, sends>>

\* validate_post accepts the stored fields when they parse to list/list/dict.
ValidFields(shape) == validate_post(shape).ok

\* The post with the outcome of the check stored on it.
WithCheck(p, v) ==
    [p EXCEPT !.blacklist_check_status = Checked(v).blacklist_check_status,
              !.blacklist_reason = Checked(v).blacklist_reason]

post_schedule(limit, planned) ==
    /\ adminOps < limit
    /\ post.status # "absent"
    /\ LET v == validate_post(post)
       IN  IF ~v.ok
           THEN /\ pubs' = pubs
                /\ post' = WithCheck(post, v)
                /\ audit' = audit
           ELSE /\ Len(pubs) < MaxPubs
                /\ pubs' = Append(pubs, NewPublication(planned))
                /\ post' = [WithCheck(post, v) EXCEPT !.status = "scheduled"]
                /\ audit' = Append(audit,
                                   AuditEntry("publication", Len(pubs) + 1, "schedule", NULL))
    /\ adminOps' = adminOps + 1
    /\ UNCHANGED <<now, wpc, due, cur, snap, res, adm,
                   remoteSeq, delivered, midWrites, rivals, batch, call, sends>>

\* if mode == "scheduled" and ok
ScheduleAllowedAnyPost(mode, ok) == mode = "scheduled"
ScheduleAllowed(mode, ok) == mode = "scheduled" /\ ok

\* One CSV row: the post is created as a draft with the outcome of the check,
\* and in scheduled mode a valid post gets its publication; one commit, no
\* audit entry.
csv_import(limit, mode, shape, planned) ==
    /\ adminOps < limit
    /\ post = NoPost
    /\ LET v == validate_post(shape)
           created == shape @@ [status |-> "draft"] @@ Checked(v)
       IN  IF ScheduleAllowed(mode, v.ok)
           THEN /\ Len(pubs) < MaxPubs
                /\ pubs' = Append(pubs, NewPublication(planned))
                /\ post' = [created EXCEPT !.status = "scheduled"]
           ELSE /\ pubs' = pubs
                /\ post' = created
    /\ adminOps' = adminOps + 1
    /\ UNCHANGED <<now, wpc, due, cur, snap, res, adm,
                   remoteSeq, delivered, midWrites, rivals, audit, batch, call, sends>>

\* The form's fields replace the stored ones and the check runs again; the
\* audit entry follows in a commit of its own.
post_edit(limit, shape) ==
    /\ adminOps < limit
    /\ post.status # "absent"
    /\ post' = WithCheck([post EXCEPT !.media_count = shape.media_count,
                                      !.body_len = shape.body_len,
                                      !.links = shape.links,
                                      !.rule_hit = shape.rule_hit,
                                      !.keyboard = shape.keyboard,
                                      !.pin = shape.pin,
                                      !.fields = shape.fields],
                         validate_post(shape))
    /\ adminOps' = adminOps + 1
    /\ audit' = Append(audit, AuditEntry("post", 1, "update", NULL))
    /\ UNCHANGED <<now, pubs, wpc, due, cur, snap, res, adm,
                   remoteSeq, delivered, midWrites, rivals, batch, call, sends>>

\* A whole request with nothing of another session between its load and
\* its commit.
AdminTarget(kind, loaded, planned) ==
    IF kind = "reschedule" THEN RescheduleTarget(loaded, planned) ELSE RetryNowTarget(loaded)

AdminRequest(kind, p, planned) ==
    /\ adminOps < MaxRequests
    /\ pubs' = [pubs EXCEPT ![p] =
                  OrmFlush(pubs[p], pubs[p], AdminTarget(kind, pubs[p], planned),
                           IF kind = "retry_now" THEN {"ready_at"} ELSE {})]
    /\ post' = [post EXCEPT !.status = IF kind = "reschedule" THEN "scheduled" ELSE "queued"]
    /\ adminOps' = adminOps + 1
    /\ audit' = Append(audit, AuditEntry("publication", p, kind, NULL))
    /\ sends' = [sends EXCEPT ![p] = 0]
    /\ UNCHANGED <<now, wpc, due, cur, snap, res, adm,
                   remoteSeq, delivered, midWrites, rivals, batch, call>>

\* ------------------------------------------------ commit with retries
\* The adjusted instants a reschedule request carries.
RescheduleChoices == {0, TickStep}

\* What db.session.commit() can end with: success, OperationalError with
\* 'database is locked', another OperationalError, another exception.
CommitAnswers == {"ok", "locked", "operational", "integrity"}

\* _commit_with_retry stops retrying one attempt later.
CommitGivesUpLate(o, attempt) == o # "locked" \/ attempt = COMMIT_MAX_ATTEMPTS + 1

\* "database is locked" not in str(exc).lower() or attempt == max_attempts
CommitGivesUp(o, attempt) == o # "locked" \/ attempt = COMMIT_MAX_ATTEMPTS

\* time.sleep(delay_seconds * attempt), in milliseconds.
RetryWait(attempt) == COMMIT_DELAY_MS * attempt

\* publication_reschedule or publication_retry_now up to its call of
\* _commit_with_retry: the row is loaded, the session holds the changes and
\* the audit entry (pending).
commit_request(kind, p, planned) ==
    /\ call = NoCall
    /\ adminOps < MaxRequests
    /\ adminOps' = adminOps + 1
    /\ call' = [fn |-> "_commit_with_retry", kind |-> kind, id |-> p, row |-> pubs[p],
                planned |-> planned, attempt |-> 1, pc |-> "commit", pending |-> TRUE,
                slept |-> <<>>, error |-> "none"]
    /\ UNCHANGED <<now, pubs, post, wpc, due, cur, snap, res, adm,
                   remoteSeq, delivered, midWrites, rivals, audit, batch, sends>>

\* One pass of the loop of _commit_with_retry with the store's answer o: a
\* commit writes what the session holds; rollback empties the session.
commit_attempt(o) ==
    /\ call.fn = "_commit_with_retry"
    /\ call.pc = "commit"
    /\ IF o = "ok"
       THEN /\ call' = [call EXCEPT !.pc = "returned", !.pending = FALSE]
            /\ IF call.pending
               THEN /\ pubs' = [pubs EXCEPT ![call.id] =
                                  OrmFlush(pubs[call.id], call.row,
                                           AdminTarget(call.kind, call.row, call.planned),
                                           IF call.kind = "retry_now" THEN {"ready_at"} ELSE {})]
                    /\ post' = [post EXCEPT !.status =
                                  IF call.kind = "reschedule" THEN "scheduled" ELSE "queued"]
                    /\ audit' = Append(audit, AuditEntry("publication", call.id, call.kind, NULL))
                    /\ sends' = [sends EXCEPT ![call.id] = 0]
               ELSE UNCHANGED <<pubs, post, audit, sends>>
       ELSE /\ UNCHANGED <<pubs, post, audit, sends>>
            /\ IF o = "integrity"
               THEN call' = [call EXCEPT !.pc = "raised", !.error = o]
               ELSE IF CommitGivesUp(o, call.attempt)
               THEN call' = [call EXCEPT !.pc = "raised", !.error = o, !.pending = FALSE]
               ELSE call' = [call EXCEPT !.pending = FALSE, !.error = o,
                                         !.slept = Append(@, RetryWait(call.attempt)),
                                         !.attempt = @ + 1]
    /\ UNCHANGED <<now, wpc, due, cur, snap, res, adm, adminOps,
                   remoteSeq, delivered, midWrites, rivals, batch>>

NextCommit ==
    \/ \E p \in PubIds, planned \in RescheduleChoices : commit_request("reschedule", p, planned)
    \/ \E p \in PubIds : commit_request("retry_now", p, NULL)
    \/ \E o \in CommitAnswers : commit_attempt(o)

SpecCommit == Init /\ [][NextCommit]_vars /\ WF_vars(NextCommit)

\* now_utc_naive() moves on.
Tick ==
    /\ now + TickStep <= MaxTime
    /\ now' = now + TickStep
    /\ UNCHANGED <<pubs, post, wpc, due, cur, snap, res, adm, adminOps,
                   remoteSeq, delivered, midWrites, rivals, audit, batch, call, sends>>

Worker == \E w \in Workers : run_worker(w)

\* Admin requests that run without overlapping another session.
Admin ==
    \/ \E p \in PubIds, planned \in PlannedChoices : AdminRequest("reschedule", p, planned)
    \/ \E p \in PubIds : AdminRequest("retry_now", p, NULL)
    \/ post_cancel(MaxRequests)
    \/ \E planned \in PlannedChoices : post_schedule(MaxRequests, planned)

\* Admin requests whose load and commit are separate steps.
AdminSessions ==
    \/ \E a \in Admins, p \in PubIds, planned \in PlannedChoices :
          AdminLoad(a, "reschedule", p, planned)
    \/ \E a \in Admins, p \in PubIds : AdminLoad(a, "retry_now", p, NULL)
    \/ \E a \in Admins : publication_reschedule(a)
    \/ \E a \in Admins : publication_retry_now(a)
    \/ post_cancel(MaxAdminOps)
    \/ \E planned \in PlannedChoices : post_schedule(MaxAdminOps, planned)

\* The worker pool beside the admin interface.
Next == Worker \/ Admin \/ Tick

Spec == Init /\ [][Next]_vars

\* The worker pool alone.
NextWorkers == Worker \/ Tick

SpecWorkers == Init /\ [][NextWorkers]_vars

\* One worker and nothing else: no admin request reaches the store, so no
\* claimable row carries a message id and idempotent completion never runs.
NextOneWorker ==
    \/ recover_stuck_publications(1)
    \/ SelectDue(1)
    \/ Claim(1)
    \/ Send(1)
    \/ CommitOutcome(1)
    \/ CommitRaises(1)
    \/ Tick

SpecOneWorker == Init /\ [][NextOneWorker]_vars

\* Posts arriving by CSV import, edited and scheduled by the admin while one
\* worker publishes.
InitSchedule ==
    /\ now = 0
    /\ pubs = <<>>
    /\ post = NoPost
    /\ wpc = [w \in Workers |-> "idle"]
    /\ due = [w \in Workers |-> <<>>]
    /\ cur = [w \in Workers |-> 0]
    /\ snap = [w \in Workers |-> NoSnap]
    /\ res = [w \in Workers |-> NoneResult]
    /\ adm = [a \in Admins |-> IdleAdmin]
    /\ adminOps = 0
    /\ remoteSeq = 0
    /\ delivered = [p \in 1..MaxPubs |-> 0]
    /\ sends = [p \in 1..MaxPubs |-> IF p \in PubIds THEN pubs[p].attempts ELSE 0]
    /\ midWrites = [p \in 1..MaxPubs |-> 0]
    /\ rivals = [p \in 1..MaxPubs |-> {}]
    /\ audit = <<>>
    /\ batch = [w \in Workers |-> NoBatch]
    /\ call = NoCall

NextSchedule ==
    \/ \E mode \in {"draft", "scheduled"}, shape \in CsvShapes, planned \in PlannedChoices :
          csv_import(MaxScheduleOps, mode, shape, planned)
    \/ \E shape \in FormShapes : post_edit(MaxScheduleOps, shape)
    \/ \E planned \in PlannedChoices : post_schedule(MaxScheduleOps, planned)
    \/ NextOneWorker

SpecSchedule == InitSchedule /\ [][NextSchedule]_vars

\* ------------------------------------------------------ slot scheduling
\* Instants are whole seconds; a naive datetime is days * DAY_SECONDS plus the
\* second of the day. A stored "HH:MM" text is the pair <<HH, MM>>.
parse_time(value) == value[1] * 3600 + value[2] * 60

DateOf(t) == t \div DAY_SECONDS
TimeOf(t) == t % DAY_SECONDS
Combine(date, time) == date * DAY_SECONDS + time

\* get_zoneinfo: the zone's offset from UTC (Europe/Moscow has no DST).
UtcOffset(tz_name) == IF tz_name = "Europe/Moscow" THEN MOSCOW_OFFSET_SECONDS ELSE 0

local_to_utc_naive(local, tz_name) == local - UtcOffset(tz_name)
utc_naive_to_local(utc, tz_name) == utc + UtcOffset(tz_name)

\* Publications of the channel planned within the UTC day that starts at day_start.
DayCount(day_start) ==
    Cardinality({ p \in PubIds : /\ pubs[p].planned_at >= day_start
                                 /\ pubs[p].planned_at < day_start + DAY_SECONDS })

RECURSIVE SlotSearch(_, _)
SlotSearch(planned_utc, tries) ==
    IF tries = 0
    THEN [planned |-> now + 60, slot_index |-> 0]
    ELSE LET slot_index == DayCount(DateOf(planned_utc) * DAY_SECONDS)
             candidate == planned_utc + slot_index
         IN  IF candidate > now
             THEN [planned |-> candidate, slot_index |-> slot_index]
             ELSE SlotSearch(planned_utc + DAY_SECONDS, tries - 1)

calculate_next_slot(channel) ==
    LET now_local == utc_naive_to_local(now, channel.timezone)
        daily == parse_time(channel.daily_time)
        today == Combine(DateOf(now_local), daily)
        base_local == IF today <= now_local THEN today + DAY_SECONDS ELSE today
    IN  SlotSearch(local_to_utc_naive(base_local, channel.timezone), SLOT_SEARCH_DAYS)

\* adjust_to_window moving a time after the window to the start of the same day.
adjust_to_window_same_day(channel, planned_utc) ==
    LET start == parse_time(channel.allowed_window_start)
        end == parse_time(channel.allowed_window_end)
        planned_local == utc_naive_to_local(planned_utc, channel.timezone)
        current_time == TimeOf(planned_local)
    IN  IF start <= current_time /\ current_time <= end
        THEN planned_utc
        ELSE local_to_utc_naive(Combine(DateOf(planned_local), start), channel.timezone)

adjust_to_window(channel, planned_utc) ==
    LET start == parse_time(channel.allowed_window_start)
        end == parse_time(channel.allowed_window_end)
        planned_local == utc_naive_to_local(planned_utc, channel.timezone)
        current_time == TimeOf(planned_local)
    IN  IF start <= current_time /\ current_time <= end
        THEN planned_utc
        ELSE IF current_time < start
        THEN local_to_utc_naive(Combine(DateOf(planned_local), start), channel.timezone)
        ELSE local_to_utc_naive(Combine(DateOf(planned_local) + 1, start), channel.timezone)

\* post_schedule with an empty planned_at field: the next slot of the post's
\* channel, moved into the allowed window; the audit entry carries slot_index.
post_schedule_next_slot ==
    /\ Len(pubs) < MaxSlots
    /\ post.status # "absent"
    /\ validate_post(post).ok
    /\ LET slot == calculate_next_slot(post.channel)
           planned_utc == adjust_to_window(post.channel, slot.planned)
       IN  /\ pubs' = Append(pubs, NewPublication(planned_utc))
           /\ audit' = Append(audit,
                  [entity |-> "publication", id |-> Len(pubs) + 1, action |-> "schedule",
                   slot_index |-> slot.slot_index])
    /\ post' = [WithCheck(post, validate_post(post)) EXCEPT !.status = "scheduled"]
    /\ UNCHANGED <<now, wpc, due, cur, snap, res, adm, adminOps,
                   remoteSeq, delivered, midWrites, rivals, batch, call, sends>>

\* Channel settings as the channels form stores them, with daily_time inside
\* the allowed window, and the instants at which the admin schedules.
DailyTimes == { <<8, 0>>, <<10, 0>>, <<22, 0>> }
Windows == { <<(<<8, 0>>), (<<22, 0>>)>>, <<(<<0, 0>>), (<<23, 59>>)>> }
Timezones == { "Europe/Moscow", "UTC" }
NowChoices == { DAY_SECONDS + 6 * 3600, DAY_SECONDS + 12 * 3600, DAY_SECONDS + 20 * 3600 }

Channels ==
    { [timezone |-> tz, daily_time |-> d,
       allowed_window_start |-> w[1], allowed_window_end |-> w[2]] :
         tz \in Timezones, d \in DailyTimes, w \in Windows }

InitSlots ==
    /\ now \in NowChoices
    /\ pubs = <<>>
    /\ \E channel \in Channels :
          post = [media_count |-> 0, keyboard |-> FALSE, pin |-> FALSE, fields |-> "ok",
                  body_len |-> 0, links |-> <<>>, rule_hit |-> "none",
                  status |-> "draft", blacklist_check_status |-> "ok",
                  blacklist_reason |-> "null", channel |-> channel]
    /\ wpc = [w \in Workers |-> "idle"]
    /\ due = [w \in Workers |-> <<>>]
    /\ cur = [w \in Workers |-> 0]
    /\ snap = [w \in Workers |-> NoSnap]
    /\ res = [w \in Workers |-> NoneResult]
    /\ adm = [a \in Admins |-> IdleAdmin]
    /\ adminOps = 0
    /\ remoteSeq = 0
    /\ delivered = [p \in 1..MaxSlots |-> 0]
    /\ sends = [p \in 1..MaxSlots |-> IF p \in PubIds THEN pubs[p].attempts ELSE 0]
    /\ midWrites = [p \in 1..MaxSlots |-> 0]
    /\ rivals = [p \in 1..MaxSlots |-> {}]
    /\ audit = <<>>
    /\ batch = [w \in Workers |-> NoBatch]
    /\ call = NoCall

NextSlots == post_schedule_next_slot

SpecSlots == InitSlots /\ [][NextSlots]_vars

\* One worker beside reschedule requests that may move the row into the
\* future.
NextReschedule ==
    \/ run_worker(1)
    \/ \E p \in PubIds, planned \in RescheduleChoices : AdminRequest("reschedule", p, planned)
    \/ Tick

SpecReschedule == Init /\ [][NextReschedule]_vars

\* ------------------------------------------------- helper functions alone
\* The store and the workers at rest while one helper function is evaluated.
AtRest ==
    /\ now = 0
    /\ pubs = <<>>
    /\ post = NoPost
    /\ wpc = [w \in Workers |-> "idle"]
    /\ due = [w \in Workers |-> <<>>]
    /\ cur = [w \in Workers |-> 0]
    /\ snap = [w \in Workers |-> NoSnap]
    /\ res = [w \in Workers |-> NoneResult]
    /\ adm = [a \in Admins |-> IdleAdmin]
    /\ adminOps = 0
    /\ remoteSeq = 0
    /\ delivered = [p \in 1..MaxPubs |-> 0]
    /\ sends = [p \in 1..MaxPubs |-> IF p \in PubIds THEN pubs[p].attempts ELSE 0]
    /\ midWrites = [p \in 1..MaxPubs |-> 0]
    /\ rivals = [p \in 1..MaxPubs |-> {}]
    /\ audit = <<>>
    /\ batch = [w \in Workers |-> NoBatch]

StaysAtRest ==
    UNCHANGED <<now, pubs, post, wpc, due, cur, snap, res, adm, adminOps,
                remoteSeq, delivered, midWrites, rivals, audit, batch, sends>>

\* Windows the channels form stores: ordinary, whole day, a single instant and
\* one whose start is later than its end.
WindowChoices ==
    { <<(<<8, 0>>), (<<22, 0>>)>>, <<(<<0, 0>>), (<<23, 59>>)>>,
      <<(<<10, 0>>), (<<10, 0>>)>>, <<(<<22, 0>>), (<<6, 0>>)>> }

\* Instants of one UTC day: on the hour, and one second past it.
InstantChoices ==
    { DAY_SECONDS + h * 3600 + sec : h \in {0, 3, 5, 7, 12, 19, 21, 23}, sec \in {0, 1} }

InitWindow ==
    /\ AtRest
    /\ \E tz \in Timezones, w \in WindowChoices, t \in InstantChoices :
          call = [fn |-> "adjust_to_window",
                  channel |-> [timezone |-> tz, allowed_window_start |-> w[1],
                               allowed_window_end |-> w[2]],
                  arg |-> t, out |-> <<>>]

\* adjust_to_window applied to the instant, then to its own result.
ApplyAdjust ==
    /\ call.fn = "adjust_to_window"
    /\ Len(call.out) < MaxApply
    /\ call' = [call EXCEPT !.out = Append(@,
                    adjust_to_window(call.channel,
                                     IF call.out = <<>> THEN call.arg
                                     ELSE call.out[Len(call.out)]))]
    /\ StaysAtRest

SpecWindow == InitWindow /\ [][ApplyAdjust]_vars

\* A Python str is the sequence of its characters.
HttpsPrefix == <<"h", "t", "t", "p", "s", ":", "/", "/", "t", ".", "m", "e", "/">>
HttpPrefix == <<"h", "t", "t", "p", ":", "/", "/", "t", ".", "m", "e", "/">>
BarePrefix == <<"t", ".", "m", "e", "/">>

Letters == {"a", "b", "c", "e", "h", "m", "n", "p", "s", "t"}
Digits == {"1", "2", "3", "4", "5"}
WordChars == Letters \cup Digits \cup {"_"}

RECURSIVE LStrip(_, _)
LStrip(str, drop) ==
    IF str # <<>> /\ Head(str) \in drop THEN LStrip(Tail(str), drop) ELSE str

RECURSIVE RStrip(_, _)
RStrip(str, drop) ==
    IF str # <<>> /\ str[Len(str)] \in drop
    THEN RStrip(SubSeq(str, 1, Len(str) - 1), drop) ELSE str

\* str.strip()
Strip(str) == RStrip(LStrip(str, {" "}), {" "})

StartsWith(str, prefix) ==
    Len(str) >= Len(prefix) /\ SubSeq(str, 1, Len(prefix)) = prefix

\* if value.startswith(prefix): value = value.removeprefix(prefix)
DropPrefix(str, prefix) ==
    IF StartsWith(str, prefix) THEN SubSeq(str, Len(prefix) + 1, Len(str)) ELSE str

\* str.isdigit(): non-empty and digits only.
IsDigit(str) == str # <<>> /\ \A i \in 1..Len(str) : str[i] \in Digits

\* re.fullmatch(r"[A-Za-z0-9_]{5,}", value)
IsPublicName(str) == Len(str) >= 5 /\ \A i \in 1..Len(str) : str[i] \in WordChars

normalize_chat_id(raw_chat_id) ==
    LET value == DropPrefix(DropPrefix(DropPrefix(Strip(raw_chat_id), HttpsPrefix),
                                       HttpPrefix), BarePrefix)
    IN  IF StartsWith(value, <<"@">>) THEN value
        ELSE IF IsDigit(LStrip(value, {"-"})) THEN value
        ELSE IF IsPublicName(value) THEN <<"@">> \o value
        ELSE value

\* What the admin may type into the chat id field, in pieces.
ChatIdPieces ==
    { HttpsPrefix, HttpPrefix, BarePrefix, <<"@">>, <<"-">>, <<" ">>,
      <<"1", "2", "3", "4", "5">>, <<"c", "h", "a", "n", "_">>, <<"a", "b">> }

RECURSIVE Typed(_)
Typed(n) ==
    IF n = 0 THEN { <<>> }
    ELSE Typed(n - 1) \cup { a \o b : a \in Typed(n - 1), b \in ChatIdPieces }

InitChatId ==
    /\ AtRest
    /\ \E x \in Typed(MaxPieces) :
          call = [fn |-> "normalize_chat_id", arg |-> x, out |-> <<>>]

\* normalize_chat_id applied to the text, then to its own result.
ApplyNormalize ==
    /\ call.fn = "normalize_chat_id"
    /\ Len(call.out) < MaxApply
    /\ call' = [call EXCEPT !.out = Append(@,
                    normalize_chat_id(IF call.out = <<>> THEN call.arg
                                      ELSE call.out[Len(call.out)]))]
    /\ StaysAtRest

SpecChatId == InitChatId /\ [][ApplyNormalize]_vars

\* Posts around the limits of validate_post.
BodyLengths == {MAX_BODY_LENGTH - 1, MAX_BODY_LENGTH, MAX_BODY_LENGTH + 1}
MediaCounts == {0, MAX_MEDIA_ITEMS, MAX_MEDIA_ITEMS + 1}
FieldChoices == {"ok", "bad_json", "bad_type"}
LinkChoices == { <<>>, <<"https">>, <<"https", "ftp">> }
RuleHits == {"none", "word"}

InitValidate ==
    /\ AtRest
    /\ \E n \in BodyLengths, f \in FieldChoices, m \in MediaCounts,
          l \in LinkChoices, r \in RuleHits :
          call = [fn |-> "validate_post",
                  arg |-> [body_len |-> n, fields |-> f, media_count |-> m,
                           links |-> l, rule_hit |-> r],
                  out |-> <<>>]

ApplyValidate ==
    /\ call.fn = "validate_post"
    /\ call.out = <<>>
    /\ call' = [call EXCEPT !.out = <<validate_post(call.arg)>>]
    /\ StaysAtRest

SpecValidate == InitValidate /\ [][ApplyValidate]_vars

\* --------------------------------------------- planning inside the window
\* The planned_at field of a form or CSV row: a channel-local minute.
PlannedTexts == { DAY_SECONDS + h * 3600 : h \in {3, 12, 23} }

\* strptime of the field, local_to_utc_naive, adjust_to_window.
FormPlanned(channel, text) ==
    adjust_to_window(channel, local_to_utc_naive(text, channel.timezone))

\* post_schedule with the planned_at field filled in.
post_schedule_at(text) ==
    /\ Len(pubs) < MaxSlots
    /\ post.status # "absent"
    /\ validate_post(post).ok
    /\ pubs' = Append(pubs, NewPublication(FormPlanned(post.channel, text)))
    /\ audit' = Append(audit,
           [entity |-> "publication", id |-> Len(pubs) + 1, action |-> "schedule",
            slot_index |-> 0])
    /\ post' = [WithCheck(post, validate_post(post)) EXCEPT !.status = "scheduled"]
    /\ UNCHANGED <<now, wpc, due, cur, snap, res, adm, adminOps,
                   remoteSeq, delivered, midWrites, rivals, batch, call, sends>>

\* publication_reschedule with the channel's window applied to the field.
publication_reschedule_at(p, text) ==
    /\ adminOps < MaxScheduleOps
    /\ pubs' = [pubs EXCEPT ![p] =
                  RescheduleTarget(pubs[p], FormPlanned(post.channel, text))]
    /\ post' = [post EXCEPT !.status = "scheduled"]
    /\ adminOps' = adminOps + 1
    /\ audit' = Append(audit,
           [entity |-> "publication", id |-> p, action |-> "reschedule", slot_index |-> 0])
    /\ sends' = [sends EXCEPT ![p] = 0]
    /\ UNCHANGED <<now, wpc, due, cur, snap, res, adm,
                   remoteSeq, delivered, midWrites, rivals, batch, call>>

\* One CSV row in scheduled mode with planned_at filled in, for a valid post.
csv_import_scheduled(text) ==
    /\ post.status = "absent"
    /\ validate_post(post).ok
    /\ pubs' = Append(pubs, NewPublication(FormPlanned(post.channel, text)))
    /\ post' = [WithCheck(post, validate_post(post)) EXCEPT !.status = "scheduled"]
    /\ UNCHANGED <<now, wpc, due, cur, snap, res, adm, adminOps,
                   remoteSeq, delivered, midWrites, rivals, audit, batch, call, sends>>

\* Channels with every window of WindowChoices; the posts table is empty or
\* holds one draft.
PlanChannels ==
    { [timezone |-> tz, daily_time |-> <<10, 0>>,
       allowed_window_start |-> w[1], allowed_window_end |-> w[2]] :
         tz \in Timezones, w \in WindowChoices }

InitPlan ==
    /\ now = DAY_SECONDS + 6 * 3600
    /\ pubs = <<>>
    /\ \E channel \in PlanChannels, st \in {"absent", "draft"} :
          post = [media_count |-> 0, keyboard |-> FALSE, pin |-> FALSE, fields |-> "ok",
                  body_len |-> 0, links |-> <<>>, rule_hit |-> "none",
                  status |-> st, blacklist_check_status |-> "ok",
                  blacklist_reason |-> "null", channel |-> channel]
    /\ wpc = [w \in Workers |-> "idle"]
    /\ due = [w \in Workers |-> <<>>]
    /\ cur = [w \in Workers |-> 0]
    /\ snap = [w \in Workers |-> NoSnap]
    /\ res = [w \in Workers |-> NoneResult]
    /\ adm = [a \in Admins |-> IdleAdmin]
    /\ adminOps = 0
    /\ remoteSeq = 0
    /\ delivered = [p \in 1..MaxSlots |-> 0]
    /\ sends = [p \in 1..MaxSlots |-> IF p \in PubIds THEN pubs[p].attempts ELSE 0]
    /\ midWrites = [p \in 1..MaxSlots |-> 0]
    /\ rivals = [p \in 1..MaxSlots |-> {}]
    /\ audit = <<>>
    /\ batch = [w \in Workers |-> NoBatch]
    /\ call = NoCall

NextPlan ==
    \/ \E text \in PlannedTexts : post_schedule_at(text)
    \/ post_schedule_next_slot
    \/ \E p \in PubIds, text \in PlannedTexts : publication_reschedule_at(p, text)
    \/ \E text \in PlannedTexts : csv_import_scheduled(text)

SpecPlan == InitPlan /\ [][NextPlan]_vars

\* Every kind of answer a remote call can end with.
AnswerKinds ==
    {"ok", "retry_after", "network", "server_error", "unexpected"} \cup Rejections

\* Parseable posts with and without a media group, a keyboard and a pin.
SendShapes ==
    {[media_count |-> m, keyboard |-> k, pin |-> pn, fields |-> "ok"] :
        m \in {0, 2}, k \in BOOLEAN, pn \in BOOLEAN}

InitClassify ==
    /\ AtRest
    /\ \E shape \in SendShapes, o1 \in AnswerKinds, o2 \in AnswerKinds,
          ra \in RetryAfterChoices :
          call = [fn |-> "send_publication",
                  arg |-> [shape |-> shape, o1 |-> o1, o2 |-> o2, ra |-> ra],
                  out |-> <<>>]

ApplySend ==
    /\ call.fn = "send_publication"
    /\ call.out = <<>>
    /\ call' = [call EXCEPT !.out =
                   <<send_publication(call.arg.shape, call.arg.o1, call.arg.o2, "ok",
                                      0, call.arg.ra)>>]
    /\ StaysAtRest

SpecClassify == InitClassify /\ [][ApplySend]_vars

\* The worker's process is killed while it handles a claimed row.
Crash(w) ==
    /\ wpc[w] \in {"claimed", "result", "complete"}
    /\ wpc' = [wpc EXCEPT ![w] = "dead"]
    /\ UNCHANGED <<now, pubs, post, due, cur, snap, res, adm, adminOps,
                   remoteSeq, delivered, midWrites, rivals, audit, batch, call, sends>>

\* The worker pool with process kills; every worker that is alive keeps
\* running its loop (while True ... time.sleep(interval)) and time passes.
NextLive == Worker \/ (\E w \in Workers : Crash(w)) \/ Tick

SpecLive ==
    /\ Init
    /\ [][NextLive]_vars
    /\ \A w \in Workers : WF_vars(run_worker(w))
    /\ WF_vars(Tick)

\* One worker whose loop is never starved, whose commits succeed and whose
\* process is never killed; time passes.
NextFair ==
    \/ recover_stuck_publications(1)
    \/ SelectDue(1)
    \/ Claim(1)
    \/ Send(1)
    \/ CommitOutcome(1)
    \/ Tick

SpecFair ==
    /\ Init
    /\ [][NextFair]_vars
    /\ WF_vars(recover_stuck_publications(1))
    /\ WF_vars(SelectDue(1))
    /\ WF_vars(Claim(1))
    /\ WF_vars(Send(1))
    /\ WF_vars(CommitOutcome(1))
    /\ WF_vars(Tick)

\* The worker pool on a queue of two due publications of one post, within
\* one lease period (no lease expires, no backoff elapses).
NextBatch ==
    \E w \in Workers :
        \/ recover_stuck_publications(w)
        \/ SelectDue(w)
        \/ Claim(w)
        \/ Send(w)
        \/ CommitOutcome(w)
        \/ CommitRaises(w)

SpecBatch == InitBatch /\ [][NextBatch]_vars

\* One worker beside admin requests that overlap it and each other.
NextAdmin == run_worker(1) \/ AdminSessions \/ Tick

SpecAdmin == Init /\ [][NextAdmin]_vars

\* One worker beside an admin who cancels the post.
NextCancel == NextOneWorker \/ post_cancel(MaxRequests)

SpecCancel == Init /\ [][NextCancel]_vars

\* ------------------------------------------------------------------ claims
NoWorkerDied == \A w \in Workers : wpc[w] # "dead"

\* C1: while no worker has ended abnormally, the remote service has accepted
\* at most one content send for every publication.
C1_AtMostOneSend ==
    NoWorkerDied => \A p \in 1..MaxPubs : delivered[p] <= 1

\* C2: when options.pin is set and the content send of a send_publication call
\* succeeded, the call returns ok = TRUE with the id of the sent message,
\* whatever pinChatMessage answered.
C2_PinKeepsSuccess ==
    [][\A w \in Workers :
         (wpc[w] = "claimed" /\ wpc'[w] = "result" /\ post.pin) =>
            \A o1 \in Outcomes, o2 \in Outcomes, o3 \in Outcomes, ra \in RetryAfterChoices :
               LET s == send_publication(post, o1, o2, o3, remoteSeq, ra)
                   c == ContentSend(post, o1, o2, remoteSeq, ra)
               IN  (s.result = res'[w] /\ s.seq = remoteSeq' /\ c.result.ok) =>
                      (res'[w].ok /\ res'[w].message_id = c.result.message_id)]_vars

\* C3: every publication whose message_id is set has status sent.
C3_MessageIdImpliesSent ==
    \A p \in PubIds : pubs[p].message_id # NULL => pubs[p].status = "sent"

\* C4: every publication in processing has locked_at and locked_by set.
C4_ProcessingIsLocked ==
    \A p \in PubIds :
        pubs[p].status = "processing" =>
            (pubs[p].locked_at # NULL /\ pubs[p].locked_by # NULL)

\* C5: every publication in scheduled or retry has attempts < MAX_ATTEMPTS.
C5_QueuedBelowCap ==
    \A p \in PubIds : pubs[p].status \in Claimable => pubs[p].attempts < MAX_ATTEMPTS

\* C6: no step of a worker changes the status of a publication that is sent,
\* failed or canceled.
C6_WorkerKeepsTerminal ==
    [][Worker =>
         \A p \in PubIds :
            pubs[p].status \in Terminal => pubs'[p].status = pubs[p].status]_vars

\* The transition table of the state machine as the specification lists it.
PermittedTransitions ==
    { <<"scheduled", "processing">>, <<"retry", "processing">>,
      <<"processing", "sent">>, <<"processing", "retry">>, <<"processing", "failed">>,
      <<"scheduled", "scheduled">>, <<"retry", "scheduled">>, <<"failed", "scheduled">>,
      <<"scheduled", "canceled">>, <<"retry", "canceled">>, <<"processing", "canceled">> }

\* C7: every change of a publication's status is a permitted transition of the
\* state machine, and a new publication starts as scheduled.
C7_OnlyPermittedTransitions ==
    [][/\ \A p \in PubIds :
            pubs'[p].status # pubs[p].status =>
               <<pubs[p].status, pubs'[p].status>> \in PermittedTransitions
       /\ \A p \in (1..Len(pubs')) \ PubIds : pubs'[p].status = "scheduled"]_vars

\* C8: of the workers that had selected the same due row, only the first to
\* run the conditional claim update sees a row affected; a worker that still
\* holds the row in its batch when another worker claimed it does not claim it.
C8_OneClaimWins ==
    [][\A w \in Workers :
         (wpc[w] = "batch" /\ due[w] # <<>> /\ wpc'[w] = "claimed") =>
            w \notin rivals[Head(due[w])]]_vars

\* C9: message_id of a publication is written at most once.
C9_MessageIdWrittenOnce ==
    \A p \in 1..MaxPubs : midWrites[p] <= 1

InProcessing == {"claimed", "result", "complete"}

\* C10: when a worker's processing of a claimed row ends, the worker is still
\* running and the row is sent, retry or failed.
C10_ProcessingEndsSettled ==
    [][\A w \in Workers :
         (wpc[w] \in InProcessing /\ wpc'[w] \notin InProcessing) =>
            /\ wpc'[w] # "dead"
            /\ pubs'[cur[w]].status \in {"sent", "retry", "failed"}]_vars

\* The worker w commits in this step the outcome of the send of a row it
\* holds claimed (the row it reloaded after its claim is in processing).
OutcomeCommitted(w) ==
    /\ wpc[w] = "result"
    /\ wpc'[w] \notin {"result", "dead"}
    /\ snap[w].row.status = "processing"

C12_FailIsTerminal ==
    [][\A w \in Workers :
         (/\ OutcomeCommitted(w)
          /\ ~res[w].ok
          /\ (~res[w].retryable \/ snap[w].row.attempts + 1 >= MAX_ATTEMPTS)) =>
            LET p == snap[w].id
            IN  /\ pubs'[p].attempts = snap[w].row.attempts + 1
                /\ pubs'[p].status = "failed"
                /\ post'.status = "failed"
                /\ audit' = Append(audit, [entity |-> "publication", id |-> p,
                                           action |-> "fail", delay |-> NULL])]_vars

\* C13: the stuck-lease sweep changes exactly the rows in processing whose
\* locked_at <= now - PROCESSING_TTL_SECONDS and attempts < MAX_ATTEMPTS; it
\* sets status retry, ready_at now, locked_at null, locked_by null and
\* last_error processing_ttl_expired, keeps every other column, and leaves
\* every other row as it was.
C13_SweepFrame ==
    [][\A w \in Workers :
         (wpc[w] = "idle" /\ wpc'[w] = "select") =>
            \A p \in PubIds :
               IF /\ pubs[p].status = "processing"
                  /\ pubs[p].locked_at # NULL
                  /\ pubs[p].locked_at <= now - PROCESSING_TTL_SECONDS
                  /\ pubs[p].attempts < MAX_ATTEMPTS
               THEN pubs'[p] = [pubs[p] EXCEPT !.status = "retry", !.ready_at = now,
                                              !.locked_at = NULL, !.locked_by = NULL,
                                              !.last_error = "processing_ttl_expired"]
               ELSE pubs'[p] = pubs[p]]_vars

\* Row p is in processing under the lease of a worker that has died.
HeldByDead(p) ==
    /\ p \in PubIds
    /\ pubs[p].status = "processing"
    /\ pubs[p].locked_at # NULL
    /\ \E w \in Workers : wpc[w] = "dead" /\ pubs[p].locked_by = w

SomeWorkerAlive == \E w \in Workers : wpc[w] # "dead"

\* C14: a row left in processing by a worker that died leaves processing
\* while some worker keeps iterating (the lease is taken early enough for
\* its TTL to expire before MaxTime, where the model's clock stops).
C14_StuckRowRecovered ==
    \A p \in 1..MaxPubs :
        (HeldByDead(p) /\ SomeWorkerAlive
                       /\ pubs[p].locked_at + PROCESSING_TTL_SECONDS <= MaxTime)
            ~> ((p \in PubIds /\ pubs[p].status # "processing") \/ ~SomeWorkerAlive)

\* The sweep of the surviving worker has put the dead worker's row back to
\* retry, due at once.
C14_Witness ==
    \E p \in PubIds, w \in Workers :
        /\ wpc[w] = "dead"
        /\ cur[w] = p
        /\ SomeWorkerAlive
        /\ pubs[p].status = "retry"
        /\ pubs[p].last_error = "processing_ttl_expired"
        /\ pubs[p].locked_by # w
        /\ pubs[p].ready_at <= now
        /\ pubs[p].attempts < MAX_ATTEMPTS

\* C15: under weak fairness of the worker loop, with every send returning,
\* every row that is due (scheduled or retry, ready_at <= now, attempts <
\* MAX_ATTEMPTS) is eventually claimed, and every scheduled row eventually
\* is sent, failed or canceled (or waits in the queue for a ready_at beyond
\* MaxTime, where the model's clock stops).
C15_NoStarvation ==
    \A p \in 1..MaxPubs :
        /\ (/\ p \in PubIds
            /\ pubs[p].status \in Claimable
            /\ pubs[p].ready_at <= now
            /\ pubs[p].attempts < MAX_ATTEMPTS)
               ~> (p \in PubIds /\ pubs[p].status = "processing")
        /\ (p \in PubIds /\ pubs[p].status = "scheduled")
               ~> (/\ p \in PubIds
                   /\ \/ pubs[p].status \in Terminal
                      \/ pubs[p].status \in Claimable /\ pubs[p].ready_at > MaxTime)

\* The first k rows of the list the worker's due query returned.
SelPrefix(w, k) == {batch[w].sel[i] : i \in 1..k}

\* C16: in every batch the rows the worker has processed are a prefix of the
\* rows eligible at selection time in the order (ready_at, planned_at, id).
C16_ProcessedIsPrefix ==
    \A w \in Workers :
        \E k \in 0..Len(batch[w].sel) : batch[w].done = SelPrefix(w, k)

\* Row a comes before row b in the order (ready_at, planned_at, id), on the
\* rows as the step finds them.
SortsBefore(a, b) ==
    \/ pubs[a].ready_at < pubs[b].ready_at
    \/ pubs[a].ready_at = pubs[b].ready_at /\ pubs[a].planned_at < pubs[b].planned_at
    \/ /\ pubs[a].ready_at = pubs[b].ready_at
       /\ pubs[a].planned_at = pubs[b].planned_at
       /\ a < b

EligibleNow == {p \in PubIds : /\ pubs[p].status \in {"scheduled", "retry"}
                               /\ pubs[p].ready_at <= now
                               /\ pubs[p].attempts < MAX_ATTEMPTS}

\* C16 as amended: the due query returns the eligible rows (all of them up
\* to BATCH_LIMIT) in ascending (ready_at, planned_at, id); the worker takes
\* them in that order, so the rows it processed and the rows it skipped are
\* together a prefix of the list; and it skips a row only when the row was
\* no longer scheduled or retry at the claim.
C16_HandledInOrder ==
    [][\A w \in Workers :
         /\ (wpc[w] = "select" /\ wpc'[w] # "select") =>
               LET d == due'[w]
               IN  /\ \A i \in 1..Len(d) : d[i] \in EligibleNow
                   /\ \A i \in 1..Len(d), j \in 1..Len(d) :
                         i < j => SortsBefore(d[i], d[j])
                   /\ Cardinality(EligibleNow) <= BATCH_LIMIT =>
                         {d[i] : i \in 1..Len(d)} = EligibleNow
                   /\ Len(d) <= BATCH_LIMIT
         /\ \E k \in 0..Len(batch'[w].sel) :
               /\ (batch'[w].done \cup batch'[w].skipped) = {batch'[w].sel[i] : i \in 1..k}
               /\ batch'[w].done \cap batch'[w].skipped = {}
         /\ (wpc[w] = "batch" /\ due'[w] # due[w] /\ wpc'[w] # "claimed") =>
               pubs[Head(due[w])].status \notin {"scheduled", "retry"}]_vars

\* A worker processes the second row of its batch after it skipped the first,
\* which another worker had claimed.
C16_Witness ==
    \E w \in Workers :
        /\ Len(batch[w].sel) = 2
        /\ batch[w].skipped = {batch[w].sel[1]}
        /\ batch[w].done = {batch[w].sel[2]}
        /\ wpc[w] = "result"

\* C17: whenever no publication of the post is scheduled, retry or
\* processing, Post.status is failed if some publication is failed, and sent
\* if none is failed and some publication is sent.
C17_PostStatusDominant ==
    (pubs # <<>> /\ \A p \in PubIds : pubs[p].status \in Terminal) =>
        /\ (\E p \in PubIds : pubs[p].status = "failed") => post.status = "failed"
        /\ ((\A p \in PubIds : pubs[p].status # "failed")
                /\ (\E p \in PubIds : pubs[p].status = "sent")) => post.status = "sent"

\* C18: every step that changes a publication's status, or creates a
\* publication, appends in the same commit an audit entry for that
\* publication, and the entries already in the audit log stay as they are.
C18_StatusChangeAudited ==
    [][ /\ Len(audit') >= Len(audit)
        /\ SubSeq(audit', 1, Len(audit)) = audit
        /\ \A p \in 1..Len(pubs') :
              (p > Len(pubs) \/ pubs'[p].status # pubs[p].status) =>
                  \E i \in (Len(audit) + 1)..Len(audit') :
                      audit'[i].entity = "publication" /\ audit'[i].id = p ]_vars

\* C19: no step creates a publication for a post that validate_post rejects;
\* post_schedule on a rejected post, and csv_import in scheduled mode of a
\* rejected row, create no publication, leave the post's status as it was
\* (draft for the imported post) and store blacklist_check_status = blocked
\* with the reason validate_post returned.
C19_NoPublicationForInvalidPost ==
    [][ /\ Len(pubs') > Len(pubs) =>
              (validate_post(post').ok /\ post'.blacklist_check_status = "ok")
        /\ ((\E planned \in PlannedChoices : post_schedule(MaxScheduleOps, planned))
                /\ ~validate_post(post).ok) =>
              /\ pubs' = pubs
              /\ post'.status = post.status
              /\ post'.blacklist_check_status = "blocked"
              /\ post'.blacklist_reason = validate_post(post).reason
              /\ post'.blacklist_reason # "null"
        /\ \A shape \in CsvShapes :
              ((\E planned \in PlannedChoices :
                    csv_import(MaxScheduleOps, "scheduled", shape, planned))
                 /\ ~validate_post(shape).ok) =>
              /\ pubs' = pubs
              /\ post'.status = "draft"
              /\ post'.blacklist_check_status = "blocked"
              /\ post'.blacklist_reason = validate_post(shape).reason
              /\ post'.blacklist_reason # "null" ]_vars

\* A rejected row was imported and scheduling it was then refused: two admin
\* requests, no audit entry, no publication, the draft marked blocked.
C19_Witness ==
    /\ adminOps = 2
    /\ audit = <<>>
    /\ pubs = <<>>
    /\ post.status = "draft"
    /\ ~validate_post(post).ok
    /\ post.blacklist_check_status = "blocked"

\* The first instant after now at which the channel's clock shows daily_time.
TargetDailyUtc ==
    LET first == now + 1
        shown == TimeOf(utc_naive_to_local(first, post.channel.timezone))
    IN  first + ((parse_time(post.channel.daily_time) - shown) % DAY_SECONDS)

\* C20: the k-th publication auto-scheduled for the channel's target day is
\* planned at daily_time + (k - 1) seconds and has slot_index k - 1.
C20_ConsecutiveSlots ==
    \A k \in PubIds :
        /\ pubs[k].planned_at = TargetDailyUtc + (k - 1)
        /\ audit[k].slot_index = k - 1

\* C21: no two publications of the channel whose planned_at came from
\* calculate_next_slot have the same planned_at.
C21_DistinctSlots ==
    \A i \in PubIds : \A j \in PubIds :
        i # j => pubs[i].planned_at # pubs[j].planned_at

\* C22: adjust_to_window applied to its own result returns that result.
C22_AdjustIdempotent ==
    (call.fn = "adjust_to_window" /\ Len(call.out) >= 2) => call.out[2] = call.out[1]

\* C23: normalize_chat_id applied to its own result returns that result.
C23_NormalizeIdempotent ==
    (call.fn = "normalize_chat_id" /\ Len(call.out) >= 2) => call.out[2] = call.out[1]

\* C24: validate_post accepts a body of 4096 characters and a media list of
\* 10 items when the other checks pass, rejects 4097 and 11, and returns the
\* reason of the first failing check in the order length, JSON shape, media
\* count, link scheme, blacklist rules.
C24_ValidateLimitsAndOrder ==
    (call.fn = "validate_post" /\ call.out # <<>>) =>
        LET c == call.arg
            v == call.out[1]
            long == c.body_len >= 4097
            broken == c.fields # "ok"
            crowded == c.media_count >= 11
            badlink == \E i \in 1..Len(c.links) : c.links[i] \notin {"http", "https"}
            banned == c.rule_hit # "none"
        IN  /\ v.ok <=> ~(long \/ broken \/ crowded \/ badlink \/ banned)
            /\ v.ok => v.reason = "null"
            /\ long => v.reason = "body_too_long"
            /\ (~long /\ broken) => v.reason \in {"json_error", "json_type"}
            /\ (~long /\ ~broken /\ crowded) => v.reason = "too_many_media"
            /\ (~long /\ ~broken /\ ~crowded /\ badlink) => v.reason = "bad_scheme"
            /\ (~long /\ ~broken /\ ~crowded /\ ~badlink /\ banned) => v.reason = c.rule_hit

\* A post at both limits (4096 characters, 10 media items) was accepted.
C24_Witness ==
    /\ call.fn = "validate_post"
    /\ call.out # <<>>
    /\ call.arg.body_len = 4096
    /\ call.arg.media_count = 10
    /\ call.out[1].ok

\* C25: a worker that finds message_id set on the row it claimed makes no
\* remote call for it; its commit leaves status sent and sent_at = now with
\* message_id and attempts as they were; and no content is delivered for a
\* row whose message_id is set.
C25_CompletionWithoutSend ==
    [][ /\ \A w \in Workers :
              (/\ wpc[w] = "claimed"
               /\ pubs[cur[w]].message_id # NULL
               /\ wpc'[w] # "claimed") =>
                  /\ wpc'[w] \in {"complete", "dead"}
                  /\ remoteSeq' = remoteSeq
                  /\ delivered' = delivered
        /\ \A w \in Workers :
              (wpc[w] = "complete" /\ wpc'[w] \notin {"complete", "dead"}) =>
                  LET p == snap[w].id
                  IN  /\ pubs'[p].status = "sent"
                      /\ pubs'[p].sent_at = now
                      /\ pubs'[p].message_id = pubs[p].message_id
                      /\ pubs'[p].message_id # NULL
                      /\ pubs'[p].attempts = pubs[p].attempts
                      /\ remoteSeq' = remoteSeq
                      /\ delivered' = delivered
        /\ \A p \in PubIds :
              delivered'[p] > delivered[p] => pubs[p].message_id = NULL ]_vars

\* A sent row was put back in the queue by the admin, claimed again and
\* completed without a send: sent, still carrying the claim's lock, one
\* delivery.
C25_Witness ==
    \E p \in PubIds :
        /\ pubs[p].status = "sent"
        /\ pubs[p].message_id # NULL
        /\ pubs[p].locked_at # NULL
        /\ delivered[p] = 1
        /\ \E i \in 1..Len(audit) : audit[i].action \in {"retry_now", "reschedule"}

\* C26: when a claim takes a row to processing, the row's ready_at is not
\* after now and its attempts are below MAX_ATTEMPTS.
C26_ClaimOnlyWhenReady ==
    [][\A p \in PubIds :
          (pubs[p].status \in Claimable /\ pubs'[p].status = "processing") =>
              (pubs[p].ready_at <= now /\ pubs[p].attempts < MAX_ATTEMPTS)]_vars

\* A worker is between its claim of row p and the commit of the outcome.
HeldByWorker(p) ==
    \E w \in Workers : cur[w] = p /\ wpc[w] \in {"claimed", "result", "complete"}

\* C27: a claim update that comes after the cancel's commit affects no row
\* and the worker moves on; a canceled row that no worker claimed before the
\* cancel stays canceled and nothing is delivered for it.
C27_CancelBeforeClaim ==
    [][ /\ \A w \in Workers :
              (/\ wpc[w] = "batch"
               /\ due[w] # <<>>
               /\ due'[w] # due[w]
               /\ pubs[Head(due[w])].status = "canceled") =>
                  (pubs' = pubs /\ wpc'[w] # "claimed" /\ delivered' = delivered)
        /\ \A p \in PubIds :
              (pubs[p].status = "canceled" /\ ~HeldByWorker(p)) =>
                  (pubs'[p].status = "canceled" /\ delivered'[p] = delivered[p]) ]_vars

\* C28: the row a worker commits with the outcome of a send has locked_at
\* and locked_by null; after a successful send it also has status sent, the
\* result's message_id, sent_at = now and last_error null.
C28_OutcomeClearsLock ==
    [][\A w \in Workers :
          OutcomeCommitted(w) =>
              LET p == snap[w].id
              IN  /\ pubs'[p].locked_at = NULL
                  /\ pubs'[p].locked_by = NULL
                  /\ res[w].ok =>
                        /\ pubs'[p].status = "sent"
                        /\ pubs'[p].message_id = res[w].message_id
                        /\ pubs'[p].sent_at = now
                        /\ pubs'[p].last_error = "null"]_vars

\* The stored media, buttons or options of the post do not parse to
\* list/list/dict.
Unparseable == post.fields \in {"bad_json", "bad_type"}

\* C29: for a post whose stored fields cannot be parsed the send makes no
\* remote call and returns ok = FALSE with retryable = FALSE, and the worker's
\* commit of that result leaves the publication failed with attempts + 1,
\* not retry.
C29_UnparseableFailsAtOnce ==
    [][\A w \in Workers :
          /\ (wpc[w] = "claimed" /\ wpc'[w] # "claimed" /\ Unparseable
                 /\ pubs[cur[w]].message_id = NULL) =>
                /\ wpc'[w] = "result"
                /\ remoteSeq' = remoteSeq
                /\ delivered' = delivered
                /\ ~res'[w].ok
                /\ ~res'[w].retryable
          /\ (OutcomeCommitted(w) /\ res[w].error = "json_field_error") =>
                /\ pubs'[snap[w].id].status = "failed"
                /\ pubs'[snap[w].id].attempts = snap[w].row.attempts + 1]_vars

\* A publication of a post edited into an unparseable one failed on its first
\* attempt with nothing delivered.
C29_Witness ==
    /\ Unparseable
    /\ \E p \in PubIds :
          /\ pubs[p].status = "failed"
          /\ pubs[p].attempts = 1
          /\ pubs[p].last_error = "json_field_error"
          /\ delivered[p] = 0

\* The answer of the remote call that failed in a send of the given post:
\* the first call's, or the follow-up's after an accepted media group with a
\* keyboard; "none" when every call made was accepted.
FailedAnswer(shape, o1, o2) ==
    IF o1 # "ok" THEN o1
    ELSE IF shape.media_count >= 2 /\ shape.keyboard /\ o2 # "ok" THEN o2
    ELSE "none"

\* C30: the result of a send whose remote call failed is classified by the
\* answer: retry_after gives retryable with retry_after_seconds set to the
\* answer's value; bad request, unauthorized, forbidden and not found give
\* not retryable; a network error, another API error and an unexpected
\* exception inside the send give retryable; and no result has ok = TRUE
\* together with an error.
C30_ErrorClassification ==
    (call.fn = "send_publication" /\ call.out # <<>>) =>
        LET a == call.arg
            s == call.out[1]
            failed == FailedAnswer(a.shape, a.o1, a.o2)
        IN  /\ ~s.raised
            /\ failed = "retry_after" =>
                  /\ ~s.result.ok
                  /\ s.result.retryable
                  /\ s.result.retry_after_seconds = a.ra
            /\ failed \in Rejections =>
                  /\ ~s.result.ok
                  /\ ~s.result.retryable
            /\ failed \in {"network", "server_error", "unexpected"} =>
                  /\ ~s.result.ok
                  /\ s.result.retryable
                  /\ s.result.retry_after_seconds = NULL
            /\ (failed = "none" /\ a.shape.pin) =>
                  /\ ~s.result.ok
                  /\ s.result.retryable
            /\ s.result.ok => s.result.error = "null"

\* The follow-up message of an accepted media group was answered not found
\* and the send returned a result that is not retryable.
C30_Witness ==
    /\ call.fn = "send_publication"
    /\ call.out # <<>>
    /\ call.arg.shape.media_count >= 2
    /\ call.arg.shape.keyboard
    /\ call.arg.o1 = "ok"
    /\ call.arg.o2 = "not_found"
    /\ ~call.out[1].result.ok
    /\ ~call.out[1].result.retryable

\* C31: for a post with two or more media items and a keyboard the send calls
\* sendMediaGroup first and sendMessage only after the group was accepted; when
\* both are accepted the result is ok with the follow-up message's id, and when
\* the follow-up fails the result is a failure although the group was
\* delivered.
C31_GroupThenFollowUp ==
    (/\ call.fn = "send_publication"
     /\ call.out # <<>>
     /\ call.arg.shape.media_count >= 2
     /\ call.arg.shape.keyboard) =>
        LET a == call.arg
            s == call.out[1]
        IN  /\ a.o1 # "ok" => (s.seq = 0 /\ ~s.result.ok)
            /\ (a.o1 = "ok" /\ a.o2 # "ok") => (s.seq = 1 /\ ~s.result.ok)
            /\ (a.o1 = "ok" /\ a.o2 = "ok") =>
                  /\ s.seq = 2
                  /\ s.result.ok
                  /\ s.result.message_id = 2

\* C32: every publication an admin operation planned has ready_at equal to
\* planned_at and a planned_at whose channel-local time of day lies within
\* [allowed_window_start, allowed_window_end].
C32_PlannedInsideWindow ==
    \A p \in PubIds :
        LET shown == TimeOf(utc_naive_to_local(pubs[p].planned_at, post.channel.timezone))
        IN  /\ pubs[p].ready_at = pubs[p].planned_at
            /\ parse_time(post.channel.allowed_window_start) <= shown
            /\ shown <= parse_time(post.channel.allowed_window_end)

\* _commit_with_retry is running, and it has ended.
CommitRunning == call.fn = "_commit_with_retry" /\ call.pc = "commit"
CommitEnded == call.fn = "_commit_with_retry" /\ call.pc \in {"returned", "raised"}

\* C33: _commit_with_retry makes at most 5 commit attempts, goes to the next
\* attempt only after a 'database is locked' failure and after waiting
\* delay * attempt, raises at once on any other failure, raises the lock error
\* only at the 5th attempt, and always ends.
C33_CommitRetryBounded ==
    /\ [](call.fn = "_commit_with_retry" =>
            /\ call.attempt \in 1..5
            /\ Len(call.slept) = call.attempt - 1
            /\ \A i \in 1..Len(call.slept) : call.slept[i] = 200 * i
            /\ (call.pc = "raised" /\ call.error = "locked") => call.attempt = 5)
    /\ [][CommitRunning =>
            /\ (call'.pc = "commit" /\ call'.attempt # call.attempt) =>
                  /\ call'.error = "locked"
                  /\ call'.attempt = call.attempt + 1
            /\ (call'.error \in {"operational", "integrity"}) => call'.pc = "raised"]_vars
    /\ (CommitRunning ~> CommitEnded)

\* The lock error was raised at the 5th attempt, after four waits.
C33_Witness ==
    /\ call.fn = "_commit_with_retry"
    /\ call.pc = "raised"
    /\ call.error = "locked"
    /\ call.attempt = 5
    /\ call.slept = <<200, 400, 600, 800>>

\* C34: when _commit_with_retry returns normally after a 'database is locked'
\* failure, the store holds the changes the request had pending: the row is
\* the request's target and the audit log has its entry.
C34_ReturnMeansPersisted ==
    [][(CommitRunning /\ call'.pc = "returned" /\ call.attempt > 1) =>
          /\ pubs'[call.id] = AdminTarget(call.kind, call.row, call.planned)
          /\ audit' = Append(audit, AuditEntry("publication", call.id, call.kind, NULL))]_vars

\* The cancel of the post has committed.
CancelCommitted == \E i \in 1..Len(audit) : audit[i].action = "cancel"

\* C35: once the cancel of a post has committed, no worker claims a
\* publication of that post for a new send.
C35_NoSendAfterCancel ==
    [][CancelCommitted =>
          \A w \in Workers : ~(wpc[w] # "claimed" /\ wpc'[w] = "claimed")]_vars

C37_QueuedPostIsValid ==
    \A p \in PubIds :
        pubs[p].status \in NonTerminal => post.blacklist_check_status = "ok"

\* C38: every publication with status sent has message_id and sent_at set.
C38_SentHasMessageId ==
    \A p \in PubIds :
        pubs[p].status = "sent" => (pubs[p].message_id # NULL /\ pubs[p].sent_at # NULL)

\* A publication was sent and an admin request has since been committed.
C38_Witness ==
    /\ \E p \in PubIds :
          /\ pubs[p].status = "sent"
          /\ pubs[p].message_id # NULL
          /\ pubs[p].sent_at # NULL
    /\ \E i \in 1..Len(audit) : audit[i].action \in {"reschedule", "retry_now", "cancel"}

\* C39: whenever Post.status is sent, no publication of the post is in
\* scheduled, retry or processing.
C39_SentPostHasNoPending ==
    post.status = "sent" => \A p \in PubIds : pubs[p].status \notin NonTerminal

\* C40: adjust_to_window(c, t) is never earlier than t and is later than t by
\* less than 24 hours plus the window start's offset into the day.
C40_AdjustNeverEarlier ==
    (call.fn = "adjust_to_window" /\ call.out # <<>>) =>
        LET start == parse_time(call.channel.allowed_window_start)
        IN  /\ call.out[1] >= call.arg
            /\ call.out[1] - call.arg < 24 * 3600 + start
            /\ Len(call.out) >= 2 => call.out[2] >= call.out[1]

\* An instant after the window's end was moved to the next day's start.
C40_Witness ==
    /\ call.fn = "adjust_to_window"
    /\ call.out # <<>>
    /\ parse_time(call.channel.allowed_window_start)
          <= parse_time(call.channel.allowed_window_end)
    /\ DateOf(utc_naive_to_local(call.out[1], call.channel.timezone))
          = DateOf(utc_naive_to_local(call.arg, call.channel.timezone)) + 1

====
